---------------------------- MODULE Spec2Model ----------------------------
(***************************************************************************)
(* Bulk write engine of src/bulk/common.ts: batch accumulation, the batch  *)
(* executor (executeCommands / resultHandler), the result merger           *)
(* (mergeBatchResults) and the result / error model.                       *)
(*                                                                         *)
(* Absent JavaScript values are modelled as follows: an optional object is *)
(* a sequence of length 0 or 1, an absent string is "", an absent number   *)
(* field of a server document is the empty sequence.                       *)
(***************************************************************************)
EXTENDS Integers, Sequences, FiniteSets, TLC

VARIABLES
  isOrdered,            \* BulkOperationBase.isOrdered
  batches,              \* s.batches: the dispatch queue
  currentBatch,         \* s.currentBatch (ordered mode), 0 or 1 batch
  currentInsertBatch,   \* s.currentInsertBatch (unordered mode)
  currentUpdateBatch,   \* s.currentUpdateBatch (unordered mode)
  currentRemoveBatch,   \* s.currentRemoveBatch (unordered mode)
  currentIndex,         \* s.currentIndex: number of operations submitted
  currentOp,            \* s.currentOp: pending find() descriptor, 0 or 1
  bulkResult,           \* s.bulkResult: the cumulative result
  executed,             \* s.executed
  maxBsonObjectSize,    \* s.maxBsonObjectSize
  maxBatchSizeBytes,    \* s.maxBatchSizeBytes
  maxWriteBatchSize,    \* s.maxWriteBatchSize
  maxKeySize,           \* s.maxKeySize
  usingAutoEncryption,  \* topology.s.options.autoEncrypter is set
  retryWrites,          \* s.options.retryWrites
  findOperators,        \* TRUE once find() has handed out a FindOperators
  submitted,            \* history: operations in caller order
  lastCall,             \* the last API call or transport callback and
                        \* the error it threw synchronously ("" if none)
  queueAtExecute,       \* history: the queue the accepted execute() began with
  inFlight,             \* batches handed to the transport, outcome pending
  dispatched,           \* history: every dispatch, in order
  outcomes,             \* history: transport outcomes received, in order
  callbacks,            \* history: invocations of execute()'s callback
  returned              \* what the last BulkWriteResult accessor call returned

vars == <<isOrdered, batches, currentBatch, currentInsertBatch,
          currentUpdateBatch, currentRemoveBatch, currentIndex, currentOp,
          bulkResult, executed, maxBsonObjectSize, maxBatchSizeBytes,
          maxWriteBatchSize, maxKeySize, usingAutoEncryption, retryWrites,
          findOperators,
          submitted, lastCall, queueAtExecute, inFlight, dispatched,
          outcomes, callbacks, returned>>

policyVars == <<isOrdered, maxBsonObjectSize, maxBatchSizeBytes,
                maxWriteBatchSize, maxKeySize, usingAutoEncryption,
                retryWrites>>

accumVars == <<batches, currentBatch, currentInsertBatch, currentUpdateBatch,
               currentRemoveBatch, currentIndex, submitted>>

execVars == <<bulkResult, executed, queueAtExecute, inFlight, dispatched,
              outcomes, callbacks, returned>>

-----------------------------------------------------------------------------
(* Bounds of the model *)

\* operations submitted to one bulk operation under SpecAccum
MaxOps == 3
\* operations submitted to one bulk operation under Spec
MaxExecOps == 3

-----------------------------------------------------------------------------
(* BatchType *)

INSERT == 1
UPDATE == 2
DELETE == 3

BatchTypes == {INSERT, UPDATE, DELETE}

(* Optional values *)
None == <<>>
Some(x) == <<x>>
IsSome(o) == Len(o) > 0
Get(o) == o[1]

RECURSIVE DecimalLength(_)
\* (n).toString(10).length for n >= 0
DecimalLength(n) == IF n < 10 THEN 1 ELSE 1 + DecimalLength(n \div 10)

-----------------------------------------------------------------------------
(* class Batch *)

\* faulty variant: the constructor already records originalZeroIndex as an index
BatchSeeded(batchType, originalZeroIndex) ==
  [ originalZeroIndex |-> originalZeroIndex,
    currentIndex      |-> 0,
    originalIndexes   |-> <<originalZeroIndex>>,
    batchType         |-> batchType,
    operations        |-> <<>>,
    size              |-> 0,
    sizeBytes         |-> 0 ]

\* faulty variant: the constructor drops its originalZeroIndex argument
BatchZeroIndexLost(batchType, originalZeroIndex) ==
  [ originalZeroIndex |-> 0,
    currentIndex      |-> 0,
    originalIndexes   |-> <<>>,
    batchType         |-> batchType,
    operations        |-> <<>>,
    size              |-> 0,
    sizeBytes         |-> 0 ]

Batch(batchType, originalZeroIndex) ==
  [ originalZeroIndex |-> originalZeroIndex,
    currentIndex      |-> 0,
    originalIndexes   |-> <<>>,
    batchType         |-> batchType,
    operations        |-> <<>>,
    size              |-> 0,
    sizeBytes         |-> 0 ]

isInsertBatch(batch) == batch.batchType = INSERT
isUpdateBatch(batch) == batch.batchType = UPDATE
isDeleteBatch(batch) == batch.batchType = DELETE

-----------------------------------------------------------------------------
(* BulkOperationBase constructor: the size policy and the empty result *)

DefaultMaxBsonObjectSize == 1024 * 1024 * 16
AutoEncryptionMaxBatchSizeBytes == 1024 * 1024 * 2
DefaultMaxWriteBatchSize == 1000

\* isMaster fields are 0 when the handshake reported none
ResolveMaxBsonObjectSize(isMasterMaxBson) ==
  IF isMasterMaxBson # 0 THEN isMasterMaxBson ELSE DefaultMaxBsonObjectSize

\* faulty variant: auto-encryption does not lower the batch ceiling
ResolveMaxBatchSizeBytesNoEncryption(autoEncryption, maxBson) == maxBson

ResolveMaxBatchSizeBytes(autoEncryption, maxBson) ==
  IF autoEncryption THEN AutoEncryptionMaxBatchSizeBytes ELSE maxBson

ResolveMaxWriteBatchSize(isMasterMaxWrite) ==
  IF isMasterMaxWrite # 0 THEN isMasterMaxWrite ELSE DefaultMaxWriteBatchSize

\* faulty variant: the key width without the two bytes of overhead
ResolveMaxKeySizeWidthOnly(maxWrite) == DecimalLength(maxWrite - 1)

ResolveMaxKeySize(maxWrite) == DecimalLength(maxWrite - 1) + 2

EmptyBulkResult ==
  [ ok                 |-> 1,
    writeErrors        |-> <<>>,
    writeConcernErrors |-> <<>>,
    insertedIds        |-> <<>>,
    nInserted          |-> 0,
    nUpserted          |-> 0,
    nMatched           |-> 0,
    nModified          |-> 0,
    nRemoved           |-> 0,
    upserted           |-> <<>>,
    opTime             |-> None ]

Constructor(ordered, isMasterMaxBson, autoEncryption, isMasterMaxWrite, retry) ==
  /\ isOrdered = ordered
  /\ usingAutoEncryption = autoEncryption
  /\ maxBsonObjectSize = ResolveMaxBsonObjectSize(isMasterMaxBson)
  /\ maxBatchSizeBytes =
       ResolveMaxBatchSizeBytes(autoEncryption,
                                ResolveMaxBsonObjectSize(isMasterMaxBson))
  /\ maxWriteBatchSize = ResolveMaxWriteBatchSize(isMasterMaxWrite)
  /\ maxKeySize = ResolveMaxKeySize(ResolveMaxWriteBatchSize(isMasterMaxWrite))
  /\ retryWrites = retry
  /\ bulkResult = EmptyBulkResult
  /\ batches = <<>>
  /\ currentBatch = None
  /\ currentInsertBatch = None
  /\ currentUpdateBatch = None
  /\ currentRemoveBatch = None
  /\ currentIndex = 0
  /\ currentOp = None
  /\ executed = FALSE
  /\ findOperators = FALSE
  /\ submitted = <<>>
  /\ lastCall = [op |-> "constructor", error |-> ""]
  /\ queueAtExecute = <<>>
  /\ returned = None
  /\ inFlight = <<>>
  /\ dispatched = <<>>
  /\ outcomes = <<>>
  /\ callbacks = <<>>

-----------------------------------------------------------------------------
(* Operations.  Every operation document is a record of the same shape; the *)
(* fields a kind does not have hold "", FALSE or None.  bsonSize is the       *)
(* estimated byte size of the document.                                    *)

Undefined == "undefined"

InsertDocument(document, bsonSize) ==
  [ doc |-> document, q |-> "", u |-> "", multi |-> FALSE, upsert |-> FALSE,
    collation |-> "", arrayFilters |-> "", limit |-> None,
    bsonSize |-> bsonSize ]

\* { q: filter, u: update } plus the options that are set
makeUpdateStatement(filter, update, options, bsonSize) ==
  [ doc |-> "", q |-> filter, u |-> update, multi |-> options.multi,
    upsert |-> options.upsert, collation |-> options.collation,
    arrayFilters |-> options.arrayFilters, limit |-> None,
    bsonSize |-> bsonSize ]

\* { q: filter, limit: options.limit } plus the options that are set
makeDeleteStatement(filter, options, bsonSize) ==
  [ doc |-> "", q |-> filter, u |-> "", multi |-> FALSE, upsert |-> FALSE,
    collation |-> options.collation, arrayFilters |-> "",
    limit |-> Some(options.limit), bsonSize |-> bsonSize ]

\* payloads whose first key is an atomic operator ($set, $inc, ...)
AtomicPayloads == {"{$set:{b:2}}"}

hasAtomicOperators(document) == document \in AtomicPayloads

-----------------------------------------------------------------------------
(* addToOperationsList: the accumulator as a record, so that the rule is a  *)
(* function from (accumulator, kind, operation) to the next accumulator.   *)

Accumulator ==
  [ batches            |-> batches,
    currentBatch       |-> currentBatch,
    currentInsertBatch |-> currentInsertBatch,
    currentUpdateBatch |-> currentUpdateBatch,
    currentRemoveBatch |-> currentRemoveBatch,
    currentIndex       |-> currentIndex ]

\* the batch-rollover rule for an operation of estimated size s
NeedsRollover(batch, s) ==
  \/ batch.size + 1 > maxWriteBatchSize
  \/ batch.sizeBytes + s + maxKeySize > maxBatchSizeBytes

AppendOperation(batch, index, document) ==
  [ batch EXCEPT !.originalIndexes = Append(@, index),
                 !.operations = Append(@, document),
                 !.size = @ + 1,
                 !.sizeBytes = @ + document.bsonSize + maxKeySize ]

\* ordered mode: one active batch; a kind change also seals it
addToOperationsListOrdered(acc, batchType, document) ==
  LET seal == /\ IsSome(acc.currentBatch)
              /\ \/ NeedsRollover(Get(acc.currentBatch), document.bsonSize)
                 \/ Get(acc.currentBatch).batchType # batchType
      open == IF IsSome(acc.currentBatch) /\ ~seal
                THEN Get(acc.currentBatch)
                ELSE Batch(batchType, acc.currentIndex)
  IN [ acc EXCEPT
         !.batches = IF seal THEN Append(@, Get(acc.currentBatch)) ELSE @,
         !.currentBatch =
            Some(AppendOperation(open, acc.currentIndex, document)),
         !.currentIndex = @ + 1 ]

ActiveOfKind(acc, batchType) ==
  CASE batchType = INSERT -> acc.currentInsertBatch
    [] batchType = UPDATE -> acc.currentUpdateBatch
    [] batchType = DELETE -> acc.currentRemoveBatch

\* unordered mode: one active batch per kind
addToOperationsListUnordered(acc, batchType, document) ==
  LET active == ActiveOfKind(acc, batchType)
      seal == IsSome(active) /\ NeedsRollover(Get(active), document.bsonSize)
      open == IF IsSome(active) /\ ~seal
                THEN Get(active)
                ELSE Batch(batchType, acc.currentIndex)
      next == Some(AppendOperation(open, acc.currentIndex, document))
  IN [ acc EXCEPT
         !.batches = IF seal THEN Append(@, Get(active)) ELSE @,
         !.currentInsertBatch = IF batchType = INSERT THEN next ELSE @,
         !.currentUpdateBatch = IF batchType = UPDATE THEN next ELSE @,
         !.currentRemoveBatch = IF batchType = DELETE THEN next ELSE @,
         !.currentIndex = @ + 1 ]

addToOperationsList(acc, batchType, document) ==
  IF isOrdered
    THEN addToOperationsListOrdered(acc, batchType, document)
    ELSE addToOperationsListUnordered(acc, batchType, document)

\* a call of this.addToOperationsList(batchType, document) on the instance
Submit(batchType, document) ==
  LET acc == addToOperationsList(Accumulator, batchType, document) IN
  /\ batches' = acc.batches
  /\ currentBatch' = acc.currentBatch
  /\ currentInsertBatch' = acc.currentInsertBatch
  /\ currentUpdateBatch' = acc.currentUpdateBatch
  /\ currentRemoveBatch' = acc.currentRemoveBatch
  /\ currentIndex' = acc.currentIndex
  /\ submitted' = Append(submitted, document)
  /\ lastCall' = [op |-> "submit", error |-> ""]

\* a call that throws synchronously and leaves the instance as it was
Throw(op, error) ==
  /\ lastCall' = [op |-> op, error |-> error]
  /\ UNCHANGED accumVars

InvalidArgument == "MongoInvalidArgumentError"
BatchReExecution == "MongoBatchReExecutionError"

-----------------------------------------------------------------------------
(* BulkOperationBase.insert / find / raw and class FindOperators *)

EmptyCurrentOp ==
  [selector |-> Undefined, upsert |-> FALSE, collation |-> "",
   arrayFilters |-> ""]

\* lines 830-832: a modifier called with no descriptor pending starts from {}
CurrentOpOrEmpty == IF IsSome(currentOp) THEN Get(currentOp) ELSE EmptyCurrentOp

\* faulty variant: the modifiers of the pending descriptor are dropped
buildCurrentOpSelectorOnly ==
  [EmptyCurrentOp EXCEPT !.selector = CurrentOpOrEmpty.selector]

\* buildCurrentOp: the pending descriptor, or {} when there is none; the
\* caller clears s.currentOp
buildCurrentOp == IF IsSome(currentOp) THEN Get(currentOp) ELSE EmptyCurrentOp

WithMulti(options, multi) ==
  [ multi |-> multi, upsert |-> options.upsert,
    collation |-> options.collation, arrayFilters |-> options.arrayFilters ]

WithLimit(options, limit) ==
  [ limit |-> limit, collation |-> options.collation ]

insert(document, bsonSize) ==
  /\ Submit(INSERT, InsertDocument(document, bsonSize))
  /\ UNCHANGED <<currentOp, findOperators>>
  /\ UNCHANGED <<policyVars, execVars>>

find(selector) ==
  /\ IF selector = Undefined
       THEN /\ Throw("find", InvalidArgument)
            /\ UNCHANGED <<currentOp, findOperators>>
       ELSE /\ currentOp' = Some([EmptyCurrentOp EXCEPT !.selector = selector])
            /\ findOperators' = TRUE
            /\ lastCall' = [op |-> "find", error |-> ""]
            /\ UNCHANGED accumVars
  /\ UNCHANGED <<policyVars, execVars>>

\* FindOperators.update: a multi update, no check of the payload
FindOperators_update(updateDocument, bsonSize) ==
  /\ findOperators
  /\ Submit(UPDATE, makeUpdateStatement(buildCurrentOp.selector, updateDocument,
                                        WithMulti(buildCurrentOp, TRUE),
                                        bsonSize))
  /\ currentOp' = None
  /\ UNCHANGED <<findOperators, policyVars, execVars>>

FindOperators_updateOne(updateDocument, bsonSize) ==
  /\ findOperators
  /\ IF ~hasAtomicOperators(updateDocument)
       THEN /\ Throw("updateOne", InvalidArgument)
            /\ UNCHANGED currentOp
       ELSE /\ Submit(UPDATE,
                      makeUpdateStatement(buildCurrentOp.selector,
                                          updateDocument,
                                          WithMulti(buildCurrentOp, FALSE),
                                          bsonSize))
            /\ currentOp' = None
  /\ UNCHANGED <<findOperators, policyVars, execVars>>

FindOperators_replaceOne(replacement, bsonSize) ==
  /\ findOperators
  /\ IF hasAtomicOperators(replacement)
       THEN /\ Throw("replaceOne", InvalidArgument)
            /\ UNCHANGED currentOp
       ELSE /\ Submit(UPDATE,
                      makeUpdateStatement(buildCurrentOp.selector, replacement,
                                          WithMulti(buildCurrentOp, FALSE),
                                          bsonSize))
            /\ currentOp' = None
  /\ UNCHANGED <<findOperators, policyVars, execVars>>

\* faulty variant: the delete statement is filed as an update
FindOperators_deleteOneAsUpdate(bsonSize) ==
  /\ findOperators
  /\ Submit(UPDATE, makeDeleteStatement(buildCurrentOp.selector,
                                        WithLimit(buildCurrentOp, 1), bsonSize))
  /\ currentOp' = None
  /\ UNCHANGED <<findOperators, policyVars, execVars>>

FindOperators_deleteOne(bsonSize) ==
  /\ findOperators
  /\ Submit(DELETE, makeDeleteStatement(buildCurrentOp.selector,
                                        WithLimit(buildCurrentOp, 1), bsonSize))
  /\ currentOp' = None
  /\ UNCHANGED <<findOperators, policyVars, execVars>>

FindOperators_delete(bsonSize) ==
  /\ findOperators
  /\ Submit(DELETE, makeDeleteStatement(buildCurrentOp.selector,
                                        WithLimit(buildCurrentOp, 0), bsonSize))
  /\ currentOp' = None
  /\ UNCHANGED <<findOperators, policyVars, execVars>>

\* FindOperators.upsert
FindOperators_upsert ==
  /\ findOperators
  /\ currentOp' = Some([CurrentOpOrEmpty EXCEPT !.upsert = TRUE])
  /\ lastCall' = [op |-> "upsert", error |-> ""]
  /\ UNCHANGED <<accumVars, findOperators, policyVars, execVars>>

\* FindOperators.collation
FindOperators_collation(collation) ==
  /\ findOperators
  /\ currentOp' = Some([CurrentOpOrEmpty EXCEPT !.collation = collation])
  /\ lastCall' = [op |-> "collation", error |-> ""]
  /\ UNCHANGED <<accumVars, findOperators, policyVars, execVars>>

\* FindOperators.arrayFilters
FindOperators_arrayFilters(arrayFilters) ==
  /\ findOperators
  /\ currentOp' = Some([CurrentOpOrEmpty EXCEPT !.arrayFilters = arrayFilters])
  /\ lastCall' = [op |-> "arrayFilters", error |-> ""]
  /\ UNCHANGED <<accumVars, findOperators, policyVars, execVars>>

\* A raw operation { <tag>: model }: model.filter, the model's document /
\* update / replacement (payload), its options, and legacy = the model has a
\* 'q' key (the raw-query shape).
RawOp(tag, filter, payload, legacy, bsonSize) ==
  [ tag |-> tag, filter |-> filter, payload |-> payload, legacy |-> legacy,
    upsert |-> FALSE, collation |-> "", arrayFilters |-> "",
    bsonSize |-> bsonSize ]

RawTags == {"insertOne", "replaceOne", "updateOne", "updateMany", "deleteOne",
            "deleteMany"}

\* faulty variant: the legacy raw-query shape is not rejected
rawErrorLegacyAccepted(op) ==
  CASE op.tag = "insertOne" -> ""
    [] op.tag = "replaceOne" /\ hasAtomicOperators(op.payload) ->
         InvalidArgument
    [] op.tag \in {"updateOne", "updateMany"}
         /\ ~hasAtomicOperators(op.payload) -> InvalidArgument
    [] op.tag \notin RawTags -> InvalidArgument
    [] OTHER -> ""

\* the InvalidArgument raw(op) throws, "" when it throws none
rawError(op) ==
  CASE op.tag = "insertOne" -> ""
    [] op.tag \in {"replaceOne", "updateOne", "updateMany"} /\ op.legacy ->
         InvalidArgument
    [] op.tag = "replaceOne" /\ hasAtomicOperators(op.payload) ->
         InvalidArgument
    [] op.tag \in {"updateOne", "updateMany"}
         /\ ~hasAtomicOperators(op.payload) -> InvalidArgument
    [] op.tag \in {"deleteOne", "deleteMany"} /\ op.legacy -> InvalidArgument
    [] op.tag \notin RawTags -> InvalidArgument
    [] OTHER -> ""

rawBatchType(op) ==
  CASE op.tag = "insertOne" -> INSERT
    [] op.tag \in {"replaceOne", "updateOne", "updateMany"} -> UPDATE
    [] OTHER -> DELETE

\* the operation raw(op) hands to addToOperationsList
rawDocument(op) ==
  CASE op.tag = "insertOne" ->
         \* a model without a document is itself taken as the document
         InsertDocument(IF op.payload = Undefined THEN "{insertOne}"
                                                  ELSE op.payload,
                        op.bsonSize)
    [] op.tag \in {"replaceOne", "updateOne", "updateMany"} ->
         makeUpdateStatement(op.filter, op.payload,
                             WithMulti(op, op.tag = "updateMany"), op.bsonSize)
    [] OTHER ->
         makeDeleteStatement(op.filter,
                             WithLimit(op, IF op.tag = "deleteOne" THEN 1
                                                                   ELSE 0),
                             op.bsonSize)

raw(op) ==
  /\ IF rawError(op) # ""
       THEN Throw("raw", rawError(op))
       ELSE Submit(rawBatchType(op), rawDocument(op))
  /\ UNCHANGED <<currentOp, findOperators, policyVars, execVars>>

\* faulty variant: the active batches are listed before the queued ones
GetBatchesActiveFirst ==
  (IF isOrdered
     THEN currentBatch
     ELSE currentInsertBatch \o currentUpdateBatch \o currentRemoveBatch)
    \o batches

\* get batches(): the queued batches followed by the active ones
GetBatches ==
  batches \o
    (IF isOrdered
       THEN currentBatch
       ELSE currentInsertBatch \o currentUpdateBatch \o currentRemoveBatch)

-----------------------------------------------------------------------------
(* Server documents.  A response has ok, n, and optionally code, message,  *)
(* nModified, upserted (one id or an array of { index, _id }),             *)
(* writeErrors, writeConcernError and opTime / lastOp.  wrapped = the       *)
(* document is delivered as { result: <document> }.                        *)

Response(ok, n, nModified, upserted, upsertedIsArray, writeErrors, writeConcernError) ==
  [ ok |-> ok, code |-> 0, message |-> "", n |-> n, nModified |-> nModified,
    upserted |-> upserted, upsertedIsArray |-> upsertedIsArray,
    writeErrors |-> writeErrors, writeConcernError |-> writeConcernError,
    opTime |-> None, lastOp |-> None, wrapped |-> FALSE ]

\* an error object read as a result document: `result = err`
ErrorAsResult(err) ==
  [ Response(err.ok, 0, None, <<>>, FALSE, <<>>, None)
      EXCEPT !.code = err.code, !.message = err.message ]

\* result.result when the document is wrapped
Unwrap(result) == [result EXCEPT !.wrapped = FALSE]

\* faulty variant: only the seconds are compared
OpTimeGreaterSecondsOnly(a, b) == a.ts > b.ts

\* lexicographic order on (ts, t): Long.greaterThan on ts, then on t
OpTimeGreater(a, b) == \/ a.ts > b.ts
                       \/ a.ts = b.ts /\ a.t > b.t

\* lines 466-507: keep the greater of the stored and the reported marker
MergeOpTime(br, result) ==
  IF IsSome(result.opTime) \/ IsSome(result.lastOp)
    THEN LET opTime == IF IsSome(result.lastOp) THEN Get(result.lastOp)
                                                ELSE Get(result.opTime)
         IN IF ~IsSome(br.opTime)
              THEN [br EXCEPT !.opTime = Some(opTime)]
              ELSE IF OpTimeGreater(opTime, Get(br.opTime))
                     THEN [br EXCEPT !.opTime = Some(opTime)]
                     ELSE br
    ELSE br

\* faulty variant: a Delete batch is counted as inserted
MergeInsertDeleteAsInserted(batch, br, result) ==
  IF (isInsertBatch(batch) \/ isDeleteBatch(batch)) /\ result.n # 0
    THEN [br EXCEPT !.nInserted = @ + result.n] ELSE br

\* lines 509-517
MergeInsertDelete(batch, br, result) ==
  LET br1 == IF isInsertBatch(batch) /\ result.n # 0
               THEN [br EXCEPT !.nInserted = @ + result.n] ELSE br
  IN IF isDeleteBatch(batch) /\ result.n # 0
       THEN [br1 EXCEPT !.nRemoved = @ + result.n] ELSE br1

\* faulty variant: an upserted value that is not an array is not counted
UpsertedCountArrayOnly(result) ==
  IF result.upsertedIsArray THEN Len(result.upserted) ELSE 0

\* lines 519-538: the local nUpserted
UpsertedCount(result) ==
  IF result.upsertedIsArray THEN Len(result.upserted)
  ELSE IF Len(result.upserted) > 0 THEN 1 ELSE 0

\* faulty variant: array entries are remapped through batch.originalIndexes
UpsertedEntriesByOriginalIndexes(batch, result) ==
  IF result.upsertedIsArray
    THEN [i \in 1..Len(result.upserted) |->
            [index |-> batch.originalIndexes[result.upserted[i].index + 1],
             _id   |-> result.upserted[i]._id]]
    ELSE IF Len(result.upserted) > 0
           THEN <<[index |-> batch.originalZeroIndex,
                   _id   |-> result.upserted[1]._id]>>
           ELSE <<>>

\* lines 521-538: the entries pushed to bulkResult.upserted
UpsertedEntries(batch, result) ==
  IF result.upsertedIsArray
    THEN [i \in 1..Len(result.upserted) |->
            [index |-> result.upserted[i].index + batch.originalZeroIndex,
             _id   |-> result.upserted[i]._id]]
    ELSE IF Len(result.upserted) > 0
           THEN <<[index |-> batch.originalZeroIndex,
                   _id   |-> result.upserted[1]._id]>>
           ELSE <<>>

\* lines 540-551
MergeUpdate(batch, br, result) ==
  IF isUpdateBatch(batch) /\ result.n # 0
    THEN [br EXCEPT
            !.nUpserted = @ + UpsertedCount(result),
            !.nMatched = @ + (result.n - UpsertedCount(result)),
            !.nModified = IF IsSome(result.nModified)
                            THEN @ + Get(result.nModified)
                            ELSE 0]
    ELSE br

\* faulty variant: the index is remapped by a flat offset
OriginalIndexAtFlatOffset(batch, i) == batch.originalZeroIndex + i

\* batch.originalIndexes[i] / batch.operations[i] for a 0-based i; -1 and
\* None stand for undefined
OriginalIndexAt(batch, i) ==
  IF i + 1 \in DOMAIN batch.originalIndexes THEN batch.originalIndexes[i + 1]
                                            ELSE -1

OperationAt(batch, i) ==
  IF i + 1 \in DOMAIN batch.operations THEN Some(batch.operations[i + 1])
                                       ELSE None

\* lines 553-564
MergedWriteErrors(batch, result) ==
  [i \in 1..Len(result.writeErrors) |->
     [index  |-> OriginalIndexAt(batch, result.writeErrors[i].index),
      code   |-> result.writeErrors[i].code,
      errmsg |-> result.writeErrors[i].errmsg,
      op     |-> OperationAt(batch, result.writeErrors[i].index)]]

\* lines 466-568: the field merge of a document that is not a top-level error
MergeFields(batch, br, result) ==
  LET br1 == MergeOpTime(br, result)
      br2 == MergeInsertDelete(batch, br1, result)
      br3 == [br2 EXCEPT !.upserted = @ \o UpsertedEntries(batch, result)]
      br4 == MergeUpdate(batch, br3, result)
      br5 == [br4 EXCEPT !.writeErrors = @ \o MergedWriteErrors(batch, result)]
  IN [br5 EXCEPT !.writeConcernErrors = @ \o result.writeConcernError]

\* lines 449-461: a top-level command failure
TopLevelError(batch, br, result) ==
  [br EXCEPT !.ok = 0,
             !.writeErrors =
                Append(@, [index  |-> 0,
                           code   |-> result.code,
                           errmsg |-> result.message,
                           op     |-> OperationAt(batch, 0)])]

\* mergeBatchResults(batch, bulkResult, err, result): the bulkResult after
\* the call; err and result are optional
mergeBatchResults(batch, br, err, result) ==
  LET doc == IF IsSome(err) THEN Some(ErrorAsResult(Get(err)))
             ELSE IF IsSome(result) THEN Some(Unwrap(Get(result)))
             ELSE None
  IN IF ~IsSome(doc) THEN br
     ELSE IF Get(doc).ok = 0 /\ br.ok = 1
            THEN TopLevelError(batch, br, Get(doc))
     ELSE IF Get(doc).ok = 0 /\ br.ok = 0 THEN br
     ELSE MergeFields(batch, br, Get(doc))

-----------------------------------------------------------------------------
(* Result and error model *)

WriteConcernFailed == 64

\* lines 305-312: the messages from the i-th on, appended one after the
\* other, ' and ' appended after the first
RECURSIVE CombinedErrmsg(_, _)
CombinedErrmsg(errors, i) ==
  IF i > Len(errors) THEN ""
  ELSE errors[i].errmsg \o (IF i = 1 THEN " and " ELSE "")
         \o CombinedErrmsg(errors, i + 1)

\* faulty variant: of several errors only the first one's message is reported
getWriteConcernErrorFirstOnly(br) ==
  IF Len(br.writeConcernErrors) = 0 THEN None
  ELSE IF Len(br.writeConcernErrors) = 1 THEN Some(br.writeConcernErrors[1])
  ELSE Some([code   |-> WriteConcernFailed,
             errmsg |-> br.writeConcernErrors[1].errmsg \o " and "])

\* BulkWriteResult.getWriteConcernError: optional
getWriteConcernError(br) ==
  IF Len(br.writeConcernErrors) = 0 THEN None
  ELSE IF Len(br.writeConcernErrors) = 1 THEN Some(br.writeConcernErrors[1])
  ELSE Some([code   |-> WriteConcernFailed,
             errmsg |-> CombinedErrmsg(br.writeConcernErrors, 1)])

\* a call of result.getWriteConcernError() on the cumulative result
BulkWriteResult_getWriteConcernError ==
  /\ returned' = getWriteConcernError(bulkResult)
  /\ lastCall' = [op |-> "getWriteConcernError", error |-> ""]
  /\ UNCHANGED <<policyVars, accumVars, currentOp, findOperators, bulkResult,
                 executed, queueAtExecute, inFlight, dispatched, outcomes,
                 callbacks>>

\* new MongoBulkWriteError(error, result): the error handed to the callback.
\* name, message and code as the constructor leaves them; err is the
\* WriteConcernError when one was passed; result is the partial result.
MongoBulkWriteError(message, code, writeErrors, err, result) ==
  [ name |-> "MongoBulkWriteError", message |-> message, code |-> code,
    writeErrors |-> writeErrors, err |-> err, result |-> result ]

\* callback(err, result)
Callback(err, result) == [err |-> err, result |-> result]

\* faulty variant: recorded write errors do not halt the run
handleWriteErrorIgnoringWriteErrors(br) ==
  IF IsSome(getWriteConcernError(br))
    THEN Some(Callback(
           Some(MongoBulkWriteError(Get(getWriteConcernError(br)).errmsg,
                                    Get(getWriteConcernError(br)).code,
                                    <<>>, getWriteConcernError(br), br)),
           None))
  ELSE None

\* faulty variant: a recorded write-concern error does not halt the run
handleWriteErrorIgnoringWriteConcern(br) ==
  IF Len(br.writeErrors) > 0
    THEN Some(Callback(
           Some(MongoBulkWriteError(
                  IF br.writeErrors[1].errmsg # ""
                    THEN br.writeErrors[1].errmsg
                    ELSE "write operation failed",
                  br.writeErrors[1].code, br.writeErrors, None, br)),
           None))
  ELSE None

\* handleWriteError: the callback invocation it makes, if it makes one
handleWriteError(br) ==
  IF Len(br.writeErrors) > 0
    THEN Some(Callback(
           Some(MongoBulkWriteError(
                  IF br.writeErrors[1].errmsg # ""
                    THEN br.writeErrors[1].errmsg
                    ELSE "write operation failed",
                  br.writeErrors[1].code, br.writeErrors, None, br)),
           None))
  ELSE IF IsSome(getWriteConcernError(br))
    THEN Some(Callback(
           Some(MongoBulkWriteError(Get(getWriteConcernError(br)).errmsg,
                                    Get(getWriteConcernError(br)).code,
                                    <<>>, getWriteConcernError(br), br)),
           None))
  ELSE None

-----------------------------------------------------------------------------
(* Batch executor *)

\* faulty variant: the resolved retryWrites is passed on for every batch
FinalRetryWritesUnchanged(batch) == retryWrites

\* lines 631-640: retryWrites of the options one batch is dispatched with
FinalRetryWrites(batch) ==
  /\ retryWrites
  /\ isUpdateBatch(batch) =>
       ~\E i \in DOMAIN batch.operations : batch.operations[i].multi
  /\ isDeleteBatch(batch) =>
       ~\E i \in DOMAIN batch.operations : batch.operations[i].limit = Some(0)

Dispatch(batch) ==
  [ batch |-> batch, ordered |-> isOrdered,
    retryWrites |-> FinalRetryWrites(batch) ]

\* the error a dispatch call throws synchronously, after `err.ok = 0`
ThrownError == [ok |-> 0, code |-> 0, message |-> "dispatch threw"]

\* faulty variant: the batch is read but not removed from the queue
RestOfQueueKept(queue) == queue

\* line 580, batches.shift(): the batch executeCommands takes from the queue,
\* and the queue it leaves
NextBatch(queue) == Head(queue)
RestOfQueue(queue) == Tail(queue)

\* faulty variant: an exhausted queue ends the run without calling back
executeCommandsNoCompletion(queue, br, flight, throws) ==
  IF Len(queue) = 0
    THEN /\ callbacks' = callbacks
         /\ batches' = queue
         /\ bulkResult' = br
         /\ inFlight' = flight
         /\ dispatched' = dispatched
    ELSE /\ batches' = RestOfQueue(queue)
         /\ IF throws
              THEN /\ bulkResult' = mergeBatchResults(NextBatch(queue), br,
                                                      Some(ThrownError), None)
                   /\ callbacks' = Append(callbacks, Callback(None, None))
                   /\ inFlight' = flight
                   /\ dispatched' = dispatched
              ELSE /\ bulkResult' = br
                   /\ callbacks' = callbacks
                   /\ inFlight' = Append(flight, NextBatch(queue))
                   /\ dispatched' = Append(dispatched,
                                           Dispatch(NextBatch(queue)))

\* executeCommands(bulkOperation, options, callback) on queue `queue` and
\* cumulative result `br`, with `flight` the batches still in flight;
\* throws: the dispatch call throws synchronously
executeCommands(queue, br, flight, throws) ==
  IF Len(queue) = 0
    THEN /\ callbacks' = Append(callbacks, Callback(None, Some(br)))
         /\ batches' = queue
         /\ bulkResult' = br
         /\ inFlight' = flight
         /\ dispatched' = dispatched
    ELSE /\ batches' = RestOfQueue(queue)
         /\ IF throws
              THEN /\ bulkResult' = mergeBatchResults(NextBatch(queue), br,
                                                      Some(ThrownError), None)
                   /\ callbacks' = Append(callbacks, Callback(None, None))
                   /\ inFlight' = flight
                   /\ dispatched' = dispatched
              ELSE /\ bulkResult' = br
                   /\ callbacks' = callbacks
                   /\ inFlight' = Append(flight, NextBatch(queue))
                   /\ dispatched' = Append(dispatched,
                                           Dispatch(NextBatch(queue)))

\* faulty variant: the active batches are pushed delete, update, insert
TrailingBatchesReversed ==
  IF isOrdered
    THEN currentBatch
    ELSE currentRemoveBatch \o currentUpdateBatch \o currentInsertBatch

\* faulty variant: a batch is pushed whether or not one is active
TrailingBatchesUnguarded ==
  IF isOrdered
    THEN IF IsSome(currentBatch) THEN currentBatch
         ELSE <<Batch(INSERT, currentIndex)>>
    ELSE (IF IsSome(currentInsertBatch) THEN currentInsertBatch
          ELSE <<Batch(INSERT, currentIndex)>>)
           \o currentUpdateBatch \o currentRemoveBatch

\* the active batches execute() pushes to the queue
TrailingBatches ==
  IF isOrdered
    THEN currentBatch
    ELSE currentInsertBatch \o currentUpdateBatch \o currentRemoveBatch

\* faulty variant: the emptiness check runs before the active batches are pushed
QueueBeforeSeal == batches

\* faulty variant: the single-use guard is missing
NeverExecuted == FALSE

\* line 1213: the single-use guard
AlreadyExecuted == executed

\* lines 1222-1231: the queue the emptiness check reads, which is the queue
\* once the active batches have been pushed
QueueAtEmptyCheck == batches \o TrailingBatches

\* BulkOperationBase.execute, up to the first suspension
execute(throws) ==
  /\ IF AlreadyExecuted
       THEN /\ lastCall' = [op |-> "execute", error |-> BatchReExecution]
            /\ UNCHANGED <<batches, execVars>>
       ELSE IF Len(QueueAtEmptyCheck) = 0
         THEN /\ lastCall' = [op |-> "execute", error |-> InvalidArgument]
              /\ batches' = batches \o TrailingBatches
              /\ UNCHANGED execVars
         ELSE /\ lastCall' = [op |-> "execute", error |-> ""]
              /\ executed' = TRUE
              /\ outcomes' = outcomes
              /\ queueAtExecute' = batches \o TrailingBatches
              /\ returned' = returned
              /\ executeCommands(batches \o TrailingBatches, bulkResult,
                                 inFlight, throws)
  /\ UNCHANGED <<currentBatch, currentInsertBatch, currentUpdateBatch,
                 currentRemoveBatch, currentIndex, submitted, currentOp,
                 findOperators, policyVars>>

\* Transport outcomes: a result document, a MongoWriteConcernError carrying
\* a result document, or any other error (which has a message)
ResultOutcome(result) ==
  [type |-> "result", result |-> Some(result), message |-> "", code |-> 0]
WriteConcernOutcome(result) ==
  [type |-> "writeConcernError", result |-> Some(result),
   message |-> "write concern failed", code |-> WriteConcernFailed]
ErrorOutcome(message, code) ==
  [type |-> "error", result |-> None, message |-> message, code |-> code]

\* faulty variant: a driver error is not told from a result
isDriverErrorNever(outcome) == FALSE

\* line 584: an error with a message that is no MongoWriteConcernError
isDriverError(outcome) == outcome.type = "error"

\* line 590: err instanceof MongoWriteConcernError
isMongoWriteConcernError(outcome) == outcome.type = "writeConcernError"

\* handleMongoWriteConcernError: the callback invocation
handleMongoWriteConcernError(br, err) ==
  Callback(Some(MongoBulkWriteError(
                  Get(Get(err.result).writeConcernError).errmsg,
                  \* err.result.writeConcernError.result: no such field
                  0, <<>>, None, br)),
           None)

\* resultHandler(err, result) for the batch in flight, with everything it
\* calls: the merge, handleWriteError and the next executeCommands
resultHandler(outcome, throws) ==
  /\ Len(inFlight) > 0
  /\ lastCall' = [op |-> "resultHandler", error |-> ""]
  /\ outcomes' = Append(outcomes, outcome)
  /\ UNCHANGED <<executed, queueAtExecute, returned>>
  /\ LET batch == Head(inFlight)
         flight == Tail(inFlight)
     IN CASE isDriverError(outcome) ->
               /\ callbacks' = Append(callbacks,
                    Callback(Some(MongoBulkWriteError(outcome.message,
                                                      outcome.code, <<>>,
                                                      None, bulkResult)),
                             None))
               /\ inFlight' = flight
               /\ UNCHANGED <<batches, bulkResult, dispatched>>
          [] isMongoWriteConcernError(outcome) ->
               LET br == mergeBatchResults(batch, bulkResult, None,
                                           outcome.result)
               IN /\ bulkResult' = br
                  /\ callbacks' = Append(callbacks,
                                    handleMongoWriteConcernError(br, outcome))
                  /\ inFlight' = flight
                  /\ UNCHANGED <<batches, dispatched>>
          [] OTHER ->
               LET br == mergeBatchResults(batch, bulkResult, None,
                                           outcome.result)
               IN IF IsSome(handleWriteError(br))
                    THEN /\ bulkResult' = br
                         /\ callbacks' = Append(callbacks,
                                                Get(handleWriteError(br)))
                         /\ inFlight' = flight
                         /\ UNCHANGED <<batches, dispatched>>
                    ELSE executeCommands(batches, br, flight, throws)
  /\ UNCHANGED <<currentBatch, currentInsertBatch, currentUpdateBatch,
                 currentRemoveBatch, currentIndex, submitted, currentOp,
                 findOperators, policyVars>>

-----------------------------------------------------------------------------
(* Inputs *)

\* estimated document sizes: small, and larger than 2 MiB
OpSizes == {12, 3 * 1024 * 1024}

\* <<isMaster.maxBsonObjectSize, autoEncrypter set, isMaster.maxWriteBatchSize>>
\* (0: not reported)
AccumPolicies == { <<40, FALSE, 0>>, <<0, FALSE, 2>>, <<0, TRUE, 0>>,
                   <<15, FALSE, 0>> }

Selector == "{a:1}"
AtomicUpdate == "{$set:{b:2}}"
PlainDocument == "{b:2}"

\* a well-formed raw operation for each tag
ValidRawOp(tag, bsonSize) ==
  RawOp(tag, Selector,
        IF tag \in {"updateOne", "updateMany"} THEN AtomicUpdate
                                               ELSE PlainDocument,
        FALSE, bsonSize)

-----------------------------------------------------------------------------
(* SpecAccum: the submission API on a fresh instance, every size policy *)

InitAccum ==
  \E ordered \in BOOLEAN, p \in AccumPolicies :
    Constructor(ordered, p[1], p[2], p[3], TRUE)

NextAccum ==
  \/ /\ currentIndex < MaxOps
     /\ \E s \in OpSizes : insert(PlainDocument, s)
  \/ find(Selector)
  \/ /\ currentIndex < MaxOps /\ IsSome(currentOp)
     /\ \E s \in OpSizes : FindOperators_update(AtomicUpdate, s)
  \/ /\ currentIndex < MaxOps /\ IsSome(currentOp)
     /\ \E s \in OpSizes : FindOperators_updateOne(AtomicUpdate, s)
  \/ /\ currentIndex < MaxOps /\ IsSome(currentOp)
     /\ \E s \in OpSizes : FindOperators_replaceOne(PlainDocument, s)
  \/ /\ currentIndex < MaxOps /\ IsSome(currentOp)
     /\ \E s \in OpSizes : FindOperators_deleteOne(s)
  \/ /\ currentIndex < MaxOps /\ IsSome(currentOp)
     /\ \E s \in OpSizes : FindOperators_delete(s)
  \/ /\ currentIndex < MaxOps
     /\ \E tag \in RawTags, s \in OpSizes : raw(ValidRawOp(tag, s))

SpecAccum == InitAccum /\ [][NextAccum]_vars

-----------------------------------------------------------------------------
(* Spec: submission, execute() and the transport's outcomes *)

\* estimated document sizes of the submitted operations
ExecSizes == {12}

\* the documents the transport may answer a batch of `len` operations with
ExecResponses(len) ==
  { Response(1, len, Some(len), <<>>, FALSE, <<>>, None),
    Response(1, len, None, <<>>, FALSE, <<>>, None),
    Response(1, len, Some(0), <<[index |-> 0, _id |-> "id1"]>>, FALSE, <<>>,
             None),
    Response(1, len - 1, Some(len - 1), <<>>, FALSE,
             <<[index |-> len - 1, code |-> 11000, errmsg |-> "duplicate"]>>,
             None),
    Response(1, len, Some(len), <<>>, FALSE, <<>>,
             Some([code |-> 64, errmsg |-> "wtimeout"])),
    Response(1, len, None, <<>>, FALSE, <<>>,
             Some([code |-> 64, errmsg |-> "wtimeout"])),
    [Response(0, 0, None, <<>>, FALSE, <<>>, None)
       EXCEPT !.code = 8000, !.message = "command failed"],
    [Response(0, 0, None, <<>>, FALSE, <<>>,
              Some([code |-> 64, errmsg |-> "wtimeout"]))
       EXCEPT !.code = 8000, !.message = "command failed"] }

ExecOutcomes(len) ==
  { ResultOutcome(r) : r \in ExecResponses(len) }
    \cup { WriteConcernOutcome(r) :
             r \in { x \in ExecResponses(len) : IsSome(x.writeConcernError) } }
    \cup { ErrorOutcome("connection closed", 0) }

Init ==
  \E ordered \in BOOLEAN : Constructor(ordered, 0, FALSE, 0, TRUE)

\* operations are submitted before execute() begins
Next ==
  \/ /\ currentIndex < MaxExecOps /\ ~executed
     /\ \E s \in ExecSizes : insert(PlainDocument, s)
  \/ /\ ~executed /\ ~IsSome(currentOp)
     /\ find(Selector)
  \/ /\ currentIndex < MaxExecOps /\ ~executed /\ IsSome(currentOp)
     /\ \E s \in ExecSizes : FindOperators_updateOne(AtomicUpdate, s)
  \/ /\ currentIndex < MaxExecOps /\ ~executed /\ IsSome(currentOp)
     /\ \E s \in ExecSizes : FindOperators_deleteOne(s)
  \/ \E throws \in BOOLEAN : execute(throws)
  \/ /\ Len(inFlight) > 0
     /\ \E o \in ExecOutcomes(Len(Head(inFlight).operations)),
           throws \in BOOLEAN : resultHandler(o, throws)

Spec == Init /\ [][Next]_vars

-----------------------------------------------------------------------------
(* Claims on the accumulator (SpecAccum) *)

\* the (batch, position) pairs of GetBatches that hold original index i
Holders(i) ==
  LET bs == GetBatches IN
  UNION { { <<b, k>> : k \in { j \in DOMAIN bs[b].originalIndexes :
                                  bs[b].originalIndexes[j] = i } } :
          b \in DOMAIN bs }

\* C1: the originalIndexes of all batches created (queued and active) hold
\* each of 0..N-1 exactly once, N the number of operations submitted, and
\* nothing else: no operation is lost or duplicated.
C1_ReindexingComplete ==
  /\ currentIndex = Len(submitted)
  /\ \A i \in 0..(currentIndex - 1) : Cardinality(Holders(i)) = 1
  /\ \A b \in DOMAIN GetBatches :
       \A k \in DOMAIN GetBatches[b].originalIndexes :
         GetBatches[b].originalIndexes[k] \in 0..(currentIndex - 1)

\* three operations went into at least two batches, one of them sealed
C1_Witness ==
  /\ currentIndex = 3
  /\ Len(batches) >= 1
  /\ Len(GetBatches) >= 2

\* C9: in every batch originalIndexes and operations have the same length,
\* originalIndexes[i] is the submission position of operations[i], and
\* originalZeroIndex is the submission position of the first operation.
C9_IndexesMatchOperations ==
  \A b \in DOMAIN GetBatches :
    LET B == GetBatches[b] IN
    /\ Len(B.originalIndexes) = Len(B.operations)
    /\ \A i \in DOMAIN B.operations :
         /\ B.originalIndexes[i] + 1 \in DOMAIN submitted
         /\ submitted[B.originalIndexes[i] + 1] = B.operations[i]
    /\ Len(B.operations) > 0 => B.originalZeroIndex = B.originalIndexes[1]

\* an unordered batch whose operations were not submitted consecutively, and
\* a batch that does not start at submission position 0
C9_Witness ==
  /\ \E b \in DOMAIN GetBatches :
       /\ GetBatches[b].originalIndexes = <<0, 2>>
       /\ GetBatches[b].operations[1] # GetBatches[b].operations[2]
  /\ \E b \in DOMAIN GetBatches : GetBatches[b].originalZeroIndex = 1

\* what a batch accounts for its operations: each one's estimated size plus
\* the index-key overhead
RECURSIVE AccountedBytes(_)
AccountedBytes(ops) ==
  IF Len(ops) = 0 THEN 0
  ELSE Head(ops).bsonSize + maxKeySize + AccountedBytes(Tail(ops))

\* the byte ceiling of the size policy: 2 MiB under auto-encryption, else the
\* maximum document size
PolicyMaxBatchBytes ==
  IF usingAutoEncryption THEN 2 * 1024 * 1024 ELSE maxBsonObjectSize

-----------------------------------------------------------------------------
(* Claims on execute() and the batch executor (Spec) *)

Last(s) == s[Len(s)]

DispatchedBatches == [i \in DOMAIN dispatched |-> dispatched[i].batch]

\* this step receives one transport outcome
OutcomeStep == Len(outcomes') = Len(outcomes) + 1

\* this step invokes execute()'s callback once, with an error that carries
\* the cumulative result as it is after the step
FailsWithPartialResult ==
  /\ Len(callbacks') = Len(callbacks) + 1
  /\ SubSeq(callbacks', 1, Len(callbacks)) = callbacks
  /\ IsSome(Last(callbacks').err)
  /\ ~IsSome(Last(callbacks').result)
  /\ Get(Last(callbacks').err).result = bulkResult'

\* C2: an execute() that passed its guards ends with exactly one of a
\* successful Result (only when the whole queue was dispatched and no
\* WriteError or WriteConcernError is recorded) or an aggregate error
\* carrying the partial Result; never with neither.
C2_ResultOrAggregateError ==
  \A i \in DOMAIN callbacks :
    /\ IsSome(callbacks[i].err) # IsSome(callbacks[i].result)
    /\ IsSome(callbacks[i].result) =>
         /\ DispatchedBatches = queueAtExecute
         /\ Len(outcomes) = Len(dispatched)
         /\ Get(callbacks[i].result).writeErrors = <<>>
         /\ Get(callbacks[i].result).writeConcernErrors = <<>>
    /\ IsSome(callbacks[i].err) =>
         Get(callbacks[i].err).result = bulkResult

\* C3: at most one batch is in flight, batches are dispatched in queue
\* order and each at most once, and a batch is dispatched only when the
\* outcomes of all earlier dispatches have been received and merged.
C3_QueueOrderInvariant ==
  /\ Len(inFlight) <= 1
  /\ Len(dispatched) = Len(outcomes) + Len(inFlight)
  /\ Len(dispatched) <= Len(queueAtExecute)
  /\ DispatchedBatches = SubSeq(queueAtExecute, 1, Len(dispatched))
  /\ \A i, j \in DOMAIN dispatched :
       i # j => dispatched[i].batch # dispatched[j].batch

C3_DispatchAfterMerge ==
  (executed /\ Len(dispatched') > Len(dispatched)) =>
     /\ OutcomeStep
     /\ Len(outcomes') = Len(dispatched)
     /\ bulkResult' = mergeBatchResults(Head(inFlight), bulkResult, None,
                                        Last(outcomes').result)
     /\ inFlight' = <<Last(dispatched').batch>>

C3_SequentialDispatch ==
  [](C3_QueueOrderInvariant) /\ [][C3_DispatchAfterMerge]_vars

\* two batches have been dispatched, the second after the first's outcome
C3_Witness ==
  /\ Len(dispatched) = 2
  /\ Len(outcomes) = 1
  /\ Len(inFlight) = 1
  /\ Len(batches) >= 1

\* C4: a transport failure for the batch in flight ends execute() at once
\* with an aggregate error wrapping the cumulative result unchanged, and
\* no batch is dispatched afterwards.
C4_OnFailure ==
  (OutcomeStep /\ Last(outcomes').type = "error") =>
     /\ bulkResult' = bulkResult
     /\ FailsWithPartialResult
     /\ dispatched' = dispatched
     /\ batches' = batches
     /\ inFlight' = <<>>

C4_AfterFailure ==
  (outcomes # <<>> /\ Last(outcomes).type = "error") =>
     /\ dispatched' = dispatched
     /\ bulkResult' = bulkResult
     /\ callbacks' = callbacks

C4_TransportFailureHalts ==
  [][C4_OnFailure]_vars /\ [][C4_AfterFailure]_vars

\* the second batch failed at the transport: the first batch's counts are
\* in the error's result and a third batch is left in the queue
C4_Witness ==
  /\ Len(outcomes) = 2
  /\ Last(outcomes).type = "error"
  /\ Len(batches) >= 1
  /\ Len(callbacks) = 1
  /\ IsSome(callbacks[1].err)
  /\ Get(callbacks[1].err).result.nInserted > 0

Counts == {"nInserted", "nMatched", "nModified", "nRemoved", "nUpserted"}

\* the outcome carries a write-concern error in a document with ok = 1
CarriesWriteConcernError(outcome) ==
  /\ outcome.type \in {"result", "writeConcernError"}
  /\ IsSome(outcome.result)
  /\ Get(outcome.result).ok = 1
  /\ IsSome(Get(outcome.result).writeConcernError)

\* C5: an outcome that carries a write-concern error (as a write-concern
\* failure or as the writeConcernError field of a response) appends it to
\* writeConcernErrors and ends execute() with an aggregate error whose
\* partial Result keeps the counts of the earlier batches; no later batch is
\* dispatched; in both modes.
C5_OnWriteConcernError ==
  (OutcomeStep /\ CarriesWriteConcernError(Last(outcomes'))) =>
     /\ bulkResult'.writeConcernErrors =
          bulkResult.writeConcernErrors
            \o Get(Last(outcomes').result).writeConcernError
     /\ FailsWithPartialResult
     /\ \A c \in Counts : bulkResult'[c] >= bulkResult[c]
     /\ dispatched' = dispatched
     /\ batches' = batches
     /\ inFlight' = <<>>

C5_WriteConcernErrorHalts == [][C5_OnWriteConcernError]_vars

\* C6: when the cumulative result holds a WriteError after an ordinary
\* response has been merged, execute() ends with an aggregate error and no
\* further batch is dispatched, in unordered as in ordered mode.
C6_OnWriteError ==
  (OutcomeStep /\ Last(outcomes').type = "result"
     /\ Len(mergeBatchResults(Head(inFlight), bulkResult, None,
                              Last(outcomes').result).writeErrors) > 0) =>
     /\ bulkResult' = mergeBatchResults(Head(inFlight), bulkResult, None,
                                        Last(outcomes').result)
     /\ FailsWithPartialResult
     /\ Get(Last(callbacks').err).writeErrors = bulkResult'.writeErrors
     /\ dispatched' = dispatched
     /\ batches' = batches
     /\ inFlight' = <<>>

C6_AfterCallback ==
  Len(callbacks) > 0 => (dispatched' = dispatched /\ inFlight' = inFlight)

C6_WriteErrorHalts == [][C6_OnWriteError]_vars /\ [][C6_AfterCallback]_vars

\* unordered mode: a response with an embedded write error ended the run
\* while another batch was still queued
C6_Witness ==
  /\ ~isOrdered
  /\ Len(batches) >= 1
  /\ Len(callbacks) = 1
  /\ IsSome(callbacks[1].err)
  /\ Len(bulkResult.writeErrors) = 1
  /\ bulkResult.ok = 1
  /\ Last(outcomes).type = "result"

\* this step is a call of execute()
ExecuteCall == lastCall' # lastCall /\ lastCall'.op = "execute"

\* C7: executed never returns to false, and once it is true every
\* execute() call fails with BatchReExecution and changes neither the
\* queue, the cumulative result nor the dispatch history.
C7_OnReExecution ==
  (executed /\ ExecuteCall) =>
     /\ lastCall'.error = BatchReExecution
     /\ UNCHANGED <<batches, bulkResult, dispatched, inFlight, outcomes,
                    callbacks, executed>>

C7_SingleUse == [][executed => executed']_vars /\ [][C7_OnReExecution]_vars

\* execute() was refused after a run that had dispatched two batches
C7_Witness ==
  /\ executed
  /\ lastCall = [op |-> "execute", error |-> BatchReExecution]
  /\ Len(dispatched) = 2
  /\ Len(batches) >= 1

\* C8: execute() fails with InvalidArgument exactly when no operation has
\* been submitted, which is when the queue is empty once the active batches
\* have been pushed; the failing call dispatches nothing and leaves the
\* instance unexecuted.
C8_OnExecute ==
  (~executed /\ ExecuteCall) =>
     /\ (lastCall'.error = InvalidArgument) <=> (currentIndex = 0)
     /\ (lastCall'.error = InvalidArgument)
          <=> (Len(batches \o TrailingBatches) = 0)
     /\ lastCall'.error = InvalidArgument =>
          /\ ~executed'
          /\ batches' = batches \o TrailingBatches
          /\ UNCHANGED <<bulkResult, dispatched, inFlight, callbacks>>
     /\ lastCall'.error = "" =>
          /\ executed'
          /\ queueAtExecute' = batches \o TrailingBatches

C8_EmptyBulkRejected == [][C8_OnExecute]_vars

\* execute() on a fresh instance was refused; nothing was dispatched
C8_Witness ==
  /\ lastCall = [op |-> "execute", error |-> InvalidArgument]
  /\ currentIndex = 0
  /\ ~executed
  /\ dispatched = <<>>

-----------------------------------------------------------------------------
(* Claims on grouping (SpecAccum) *)

\* the kind of a submitted operation, read off its fields
KindOf(document) ==
  IF document.doc # "" THEN INSERT
  ELSE IF IsSome(document.limit) THEN DELETE ELSE UPDATE

RECURSIVE FlattenOperations(_)
FlattenOperations(bs) ==
  IF Len(bs) = 0 THEN <<>>
  ELSE Head(bs).operations \o FlattenOperations(Tail(bs))

RECURSIVE FlattenIndexes(_)
FlattenIndexes(bs) ==
  IF Len(bs) = 0 THEN <<>>
  ELSE Head(bs).originalIndexes \o FlattenIndexes(Tail(bs))

\* every operation sits in a batch of its own kind
KindsNotMixed ==
  \A b \in DOMAIN GetBatches :
    \A k \in DOMAIN GetBatches[b].operations :
      KindOf(GetBatches[b].operations[k]) = GetBatches[b].batchType

\* C11: in ordered mode only currentBatch is ever active, no batch holds
\* operations of two kinds, and the operations of the queued batches followed
\* by the active batch are the submission sequence, with original indexes
\* 0, 1, ..., N-1 in that order.
C11_OrderedGrouping ==
  isOrdered =>
    /\ currentInsertBatch = None
    /\ currentUpdateBatch = None
    /\ currentRemoveBatch = None
    /\ KindsNotMixed
    /\ FlattenOperations(GetBatches) = submitted
    /\ FlattenIndexes(GetBatches) = [i \in 1..currentIndex |-> i - 1]

\* ordered mode: three operations, a kind change sealed a batch, and the
\* batches start at caller positions 0 and 1
C11_Witness ==
  /\ isOrdered
  /\ currentIndex = 3
  /\ Len(batches) >= 1
  /\ batches[1].batchType # Get(currentBatch).batchType
  /\ \E b \in DOMAIN GetBatches : GetBatches[b].originalZeroIndex = 1

\* the caller positions (0-based) of the submitted operations of one kind
PositionsOfKind(batchType) ==
  { i - 1 : i \in { j \in DOMAIN submitted : KindOf(submitted[j]) = batchType } }

StrictlyIncreasing(s) ==
  \A i, j \in DOMAIN s : i < j => s[i] < s[j]

\* C12: in unordered mode there is one active slot per kind, each holding a
\* batch of that kind only; every operation is in a batch of its own kind
\* with increasing original indexes; and while no limit has sealed a batch,
\* there is exactly one batch per submitted kind, holding all the operations
\* of that kind in caller order.
C12_UnorderedGrouping ==
  ~isOrdered =>
    /\ currentBatch = None
    /\ IsSome(currentInsertBatch) => isInsertBatch(Get(currentInsertBatch))
    /\ IsSome(currentUpdateBatch) => isUpdateBatch(Get(currentUpdateBatch))
    /\ IsSome(currentRemoveBatch) => isDeleteBatch(Get(currentRemoveBatch))
    /\ KindsNotMixed
    /\ \A b \in DOMAIN GetBatches :
         StrictlyIncreasing(GetBatches[b].originalIndexes)
    /\ batches = <<>> =>
         /\ Len(GetBatches) =
              Cardinality({ t \in BatchTypes : PositionsOfKind(t) # {} })
         /\ \A b \in DOMAIN GetBatches :
              { GetBatches[b].originalIndexes[k] :
                  k \in DOMAIN GetBatches[b].originalIndexes }
                = PositionsOfKind(GetBatches[b].batchType)

\* unordered mode, no rollover: insert, delete, insert gave two batches, the
\* Insert batch holding caller positions 0 and 2
C12_Witness ==
  /\ ~isOrdered
  /\ batches = <<>>
  /\ currentIndex = 3
  /\ IsSome(currentInsertBatch)
  /\ Get(currentInsertBatch).originalIndexes = <<0, 2>>
  /\ IsSome(currentRemoveBatch)
  /\ Get(currentRemoveBatch).originalIndexes = <<1>>
  /\ Len(GetBatches) = 2

-----------------------------------------------------------------------------
(* SpecUnordered: unordered mode, with and without early rollover *)

\* isMaster.maxWriteBatchSize: not reported, and a limit of one operation
UnorderedMaxWriteBatchSizes == {0, 1}

InitUnordered ==
  \E w \in UnorderedMaxWriteBatchSizes : Constructor(FALSE, 0, FALSE, w, TRUE)

SpecUnordered == InitUnordered /\ [][Next]_vars

\* kinds never go down along the sequence: insert, then update, then delete
KindOrdered(q) ==
  \A i, j \in DOMAIN q : i < j => q[i].batchType <= q[j].batchType

\* two batches of one kind: the earlier holds the earlier caller positions
CallerOrderedWithinKind(q) ==
  \A i, j \in DOMAIN q :
    (i < j /\ q[i].batchType = q[j].batchType) =>
      \A a \in DOMAIN q[i].originalIndexes, b \in DOMAIN q[j].originalIndexes :
        q[i].originalIndexes[a] < q[j].originalIndexes[b]

\* no rollover happened before execute(): one batch per kind
OneBatchPerKind(q) ==
  \A i, j \in DOMAIN q : i # j => q[i].batchType # q[j].batchType

\* C13 as stated: in unordered mode, rollover or not, batches are dispatched
\* insert, then update, then delete, and within a kind in caller order.
C13_KindOrderAlways ==
  ~isOrdered =>
    /\ KindOrdered(DispatchedBatches)
    /\ CallerOrderedWithinKind(DispatchedBatches)

\* C13 (amended): in unordered mode batches of one kind are dispatched in
\* caller order, and when no rollover sealed a batch before execute() the
\* dispatch order is insert, then update, then delete.
C13_KindOrderWithoutRollover ==
  ~isOrdered =>
    /\ CallerOrderedWithinKind(DispatchedBatches)
    /\ OneBatchPerKind(queueAtExecute) => KindOrdered(DispatchedBatches)

\* no rollover: an Insert batch submitted second was dispatched first, an
\* Update or Delete batch submitted first was dispatched after it
C13_Witness ==
  /\ ~isOrdered
  /\ OneBatchPerKind(queueAtExecute)
  /\ Len(dispatched) = 2
  /\ isInsertBatch(dispatched[1].batch)
  /\ dispatched[1].batch.originalZeroIndex = 1
  /\ dispatched[2].batch.originalZeroIndex = 0

-----------------------------------------------------------------------------
(* SpecMerge: mergeBatchResults applied to sequences of responses.  The     *)
(* instance first receives a fixed submission sequence, which gives the    *)
(* batches; then any batch is merged with any response, MaxMerges times.   *)
(* dispatched records the batch and outcomes the response of each merge.   *)

MaxMerges == 3

\* the kinds submitted, in caller order
MergeScript ==
  IF isOrdered THEN <<INSERT, INSERT, UPDATE, INSERT, DELETE>>
               ELSE <<INSERT, UPDATE, INSERT, UPDATE, DELETE>>

\* every submitted operation has its own estimated size, so that no two
\* operations are equal
ScriptSizes == [i \in 0..4 |-> 10 + i]

WithOpTime(response, ts, t) ==
  [response EXCEPT !.opTime = Some([ts |-> ts, t |-> t])]

WithLastOp(response, ts, t) ==
  [response EXCEPT !.lastOp = Some([ts |-> ts, t |-> t])]

\* the documents the server may answer `batch` with
MergeResponses(batch) ==
  LET len == Len(batch.operations) IN
  { WithOpTime(Response(1, len, Some(len), <<>>, FALSE, <<>>, None), 5, 1),
    WithOpTime(Response(1, len, None, <<>>, FALSE, <<>>, None), 5, 2),
    WithLastOp(Response(1, len - 1, Some(len - 1), <<>>, FALSE,
                        <<[index |-> len - 1, code |-> 11000,
                           errmsg |-> "duplicate"]>>, None), 4, 9),
    [Response(0, 0, None, <<>>, FALSE, <<>>, None)
       EXCEPT !.code = 8000, !.message = "command failed"] }
  \cup
  (IF isUpdateBatch(batch)
     THEN { Response(1, len, Some(0),
                     <<[index |-> len - 1, _id |-> "id1"]>>, TRUE, <<>>, None),
            \* upserted given as one value, not as an array
            Response(1, len, Some(0),
                     <<[index |-> 0, _id |-> "id2"]>>, FALSE, <<>>, None) }
     ELSE {})

\* one call mergeBatchResults(batch, bulkResult, undefined, response)
MergeStep(batch, response) ==
  /\ bulkResult' = mergeBatchResults(batch, bulkResult, None, Some(response))
  /\ dispatched' = Append(dispatched, Dispatch(batch))
  /\ outcomes' = Append(outcomes, ResultOutcome(response))
  /\ lastCall' = [op |-> "mergeBatchResults", error |-> ""]
  /\ UNCHANGED <<policyVars, accumVars, currentOp, findOperators, executed,
                 queueAtExecute, inFlight, callbacks, returned>>

InitMerge ==
  \E ordered \in BOOLEAN : Constructor(ordered, 0, FALSE, 0, TRUE)

NextMerge ==
  \/ /\ currentIndex < Len(MergeScript)
     /\ MergeScript[currentIndex + 1] = INSERT
     /\ insert(PlainDocument, ScriptSizes[currentIndex])
  \/ /\ currentIndex < Len(MergeScript)
     /\ MergeScript[currentIndex + 1] # INSERT
     /\ ~IsSome(currentOp)
     /\ find(Selector)
  \/ /\ currentIndex < Len(MergeScript)
     /\ MergeScript[currentIndex + 1] = UPDATE
     /\ IsSome(currentOp)
     /\ FindOperators_updateOne(AtomicUpdate, ScriptSizes[currentIndex])
  \/ /\ currentIndex < Len(MergeScript)
     /\ MergeScript[currentIndex + 1] = DELETE
     /\ IsSome(currentOp)
     /\ FindOperators_deleteOne(ScriptSizes[currentIndex])
  \/ /\ currentIndex = Len(MergeScript)
     /\ Len(outcomes) < MaxMerges
     /\ \E b \in DOMAIN GetBatches :
          \E r \in MergeResponses(GetBatches[b]) : MergeStep(GetBatches[b], r)

SpecMerge == InitMerge /\ [][NextMerge]_vars

-----------------------------------------------------------------------------
(* Claims on the result merger (SpecMerge) *)

\* this step is one merge call; its batch and its response
MergeCall == Len(outcomes') = Len(outcomes) + 1
MergedBatch == Last(dispatched').batch
MergedResponse == Get(Last(outcomes').result)

\* C14: a merge performed while the cumulative ok is 1 decreases none of
\* nInserted, nMatched, nModified, nRemoved, nUpserted, whatever the response.
C14_OnMerge ==
  (MergeCall /\ bulkResult.ok = 1) =>
     \A c \in Counts : bulkResult'[c] >= bulkResult[c]

C14_CountsNeverDecrease == [][C14_OnMerge]_vars

\* C15: once the cumulative ok is 0 no merge changes a count, and merging a
\* response with ok = 0 changes nothing at all.
C15_OnMerge ==
  (MergeCall /\ bulkResult.ok = 0) =>
     /\ \A c \in Counts : bulkResult'[c] = bulkResult[c]
     /\ MergedResponse.ok = 0 => bulkResult' = bulkResult

Marker(response) ==
  IF IsSome(response.lastOp) THEN response.lastOp ELSE response.opTime

\* lexicographic order on (seconds, ordinal)
LexGreater(a, b) == a.ts > b.ts \/ (a.ts = b.ts /\ a.t > b.t)

\* the markers reported by the ok responses merged so far
MergedMarkers ==
  { Get(Marker(Get(outcomes[i].result))) :
      i \in { j \in DOMAIN outcomes :
                /\ Get(outcomes[j].result).ok = 1
                /\ IsSome(Marker(Get(outcomes[j].result))) } }

C16_IsMaximum ==
  IF MergedMarkers = {}
    THEN bulkResult.opTime = None
    ELSE /\ IsSome(bulkResult.opTime)
         /\ Get(bulkResult.opTime) \in MergedMarkers
         /\ \A m \in MergedMarkers : ~LexGreater(m, Get(bulkResult.opTime))

C16_NeverBackwards ==
  IsSome(bulkResult.opTime) =>
    /\ IsSome(bulkResult'.opTime)
    /\ ~LexGreater(Get(bulkResult.opTime), Get(bulkResult'.opTime))

ErrorFree(response) ==
  /\ response.ok = 1
  /\ response.writeErrors = <<>>
  /\ response.writeConcernError = None

C17_OnMerge ==
  (MergeCall /\ ErrorFree(MergedResponse)) =>
     /\ isInsertBatch(MergedBatch) =>
          /\ bulkResult'.nInserted = bulkResult.nInserted + MergedResponse.n
          /\ \A c \in Counts \ {"nInserted"} : bulkResult'[c] = bulkResult[c]
     /\ isDeleteBatch(MergedBatch) =>
          /\ bulkResult'.nRemoved = bulkResult.nRemoved + MergedResponse.n
          /\ \A c \in Counts \ {"nRemoved"} : bulkResult'[c] = bulkResult[c]

RECURSIVE SumOfAffected(_)
SumOfAffected(os) ==
  IF Len(os) = 0 THEN 0
  ELSE Get(Head(os).result).n + SumOfAffected(Tail(os))

C17_InsertsAddUp ==
  (\A i \in DOMAIN outcomes :
      /\ ErrorFree(Get(outcomes[i].result))
      /\ isInsertBatch(dispatched[i].batch)) =>
    bulkResult.nInserted = SumOfAffected(outcomes)

\* C17: merging an error-free response with affected count n adds n to
\* nInserted for an Insert batch and to nRemoved for a Delete batch and
\* changes no other count; error-free Insert batches of sizes a and b give
\* nInserted = a + b.
C17_InsertDeleteCounts ==
  [][C17_OnMerge]_vars /\ [](C17_InsertsAddUp)

\* ordered mode: the Insert batches of sizes 2 and 1 were merged error-free
C17_Witness ==
  /\ Len(outcomes) = 2
  /\ \A i \in DOMAIN outcomes : ErrorFree(Get(outcomes[i].result))
  /\ isInsertBatch(dispatched[1].batch)
  /\ isInsertBatch(dispatched[2].batch)
  /\ Len(dispatched[1].batch.operations) = 2
  /\ Len(dispatched[2].batch.operations) = 1
  /\ bulkResult.nInserted = 3

\* the records this step appends to a list of the cumulative result
Appended(old, new) == SubSeq(new, Len(old) + 1, Len(new))

\* C18: each write error embedded in a merged response at batch-local index
\* i is appended to writeErrors with the caller's index of the batch's i-th
\* operation and with that operation as the offending one.
C18_OnMerge ==
  (MergeCall /\ MergedResponse.ok = 1) =>
     LET new == Appended(bulkResult.writeErrors, bulkResult'.writeErrors) IN
     /\ SubSeq(bulkResult'.writeErrors, 1, Len(bulkResult.writeErrors))
          = bulkResult.writeErrors
     /\ Len(new) = Len(MergedResponse.writeErrors)
     /\ \A k \in DOMAIN new :
          /\ new[k].index + 1 \in DOMAIN submitted
          /\ new[k].op = Some(submitted[new[k].index + 1])
          /\ new[k].op =
               Some(MergedBatch.operations[MergedResponse.writeErrors[k].index + 1])
          /\ new[k].code = MergedResponse.writeErrors[k].code

C18_WriteErrorIndexRemapped == [][C18_OnMerge]_vars

\* unordered mode: the second operation of the Update batch, submitted
\* fourth, failed and is recorded with index 3
C18_Witness ==
  /\ ~isOrdered
  /\ bulkResult.ok = 1
  /\ \E k \in DOMAIN bulkResult.writeErrors :
       /\ bulkResult.writeErrors[k].index = 3
       /\ bulkResult.writeErrors[k].op = Some(submitted[4])

\* C19: every entry appended to upserted carries the caller's index of the
\* update operation that caused the upsert, in both modes.
C19_OnMerge ==
  (MergeCall /\ MergedResponse.ok = 1) =>
     LET new == Appended(bulkResult.upserted, bulkResult'.upserted) IN
     /\ Len(new) = Len(MergedResponse.upserted)
     /\ \A k \in DOMAIN new :
          /\ new[k].index + 1 \in DOMAIN submitted
          /\ submitted[new[k].index + 1]
               = MergedBatch.operations[MergedResponse.upserted[k].index + 1]

C19_UpsertedIndexIsCallerIndex == [][C19_OnMerge]_vars

-----------------------------------------------------------------------------
(* SpecFind: find() with present, empty and absent filters *)

MaxFindOps == 2

\* the empty filter document
EmptySelector == "{}"

FindSelectors == {Selector, EmptySelector, Undefined}

InitFind ==
  \E ordered \in BOOLEAN : Constructor(ordered, 0, FALSE, 0, TRUE)

NextFind ==
  \/ \E sel \in FindSelectors : find(sel)
  \/ /\ currentIndex < MaxFindOps
     /\ \E s \in ExecSizes : insert(PlainDocument, s)
  \/ /\ currentIndex < MaxFindOps /\ IsSome(currentOp)
     /\ \E s \in ExecSizes : FindOperators_updateOne(AtomicUpdate, s)
  \/ /\ currentIndex < MaxFindOps /\ IsSome(currentOp)
     /\ \E s \in ExecSizes : FindOperators_deleteOne(s)

SpecFind == InitFind /\ [][NextFind]_vars

\* C20: a find() call whose filter is absent or empty throws InvalidArgument,
\* hands out no builder and leaves the pending descriptor and every batch
\* as they were.
C20_OnFind ==
  \A sel \in {EmptySelector, Undefined} :
    find(sel) =>
      /\ lastCall' = [op |-> "find", error |-> InvalidArgument]
      /\ UNCHANGED <<currentOp, findOperators, accumVars>>

C20_FindRejectsEmptyFilter == [][C20_OnFind]_vars

-----------------------------------------------------------------------------
(* SpecRaw: raw() with well-formed and malformed tagged operations *)

\* raw operations submitted to one bulk operation under SpecRaw
MaxRawOps == 2

UnknownTag == "findOneAndUpdate"

\* every tag and an unknown one, with an operator and a plain payload, in the
\* current and in the legacy raw-query shape
RawInputs ==
  { RawOp(tag, Selector, payload, legacy, s) :
      tag \in RawTags \cup {UnknownTag},
      payload \in {AtomicUpdate, PlainDocument},
      legacy \in BOOLEAN, s \in ExecSizes }

InitRaw ==
  \E ordered \in BOOLEAN : Constructor(ordered, 0, FALSE, 0, TRUE)

NextRaw ==
  /\ currentIndex < MaxRawOps
  /\ \E op \in RawInputs : raw(op)

SpecRaw == InitRaw /\ [][NextRaw]_vars

\* the raw operations the claim has rejected
RejectedRawOp(op) ==
  \/ op.tag = "replaceOne" /\ hasAtomicOperators(op.payload)
  \/ op.tag \in {"updateOne", "updateMany"} /\ ~hasAtomicOperators(op.payload)
  \/ /\ op.tag \in {"replaceOne", "updateOne", "updateMany", "deleteOne",
                    "deleteMany"}
     /\ op.legacy
  \/ op.tag \notin RawTags

KindOfTag(tag) ==
  IF tag = "insertOne" THEN INSERT
  ELSE IF tag \in {"deleteOne", "deleteMany"} THEN DELETE ELSE UPDATE

C21_OnRaw(op) ==
  raw(op) =>
    IF RejectedRawOp(op)
      THEN /\ lastCall' = [op |-> "raw", error |-> InvalidArgument]
           /\ UNCHANGED accumVars
      ELSE /\ lastCall'.error = ""
           /\ currentIndex' = currentIndex + 1
           /\ submitted' = Append(submitted, Last(submitted'))
           /\ Len(FlattenOperations(GetBatches)')
                = Len(FlattenOperations(GetBatches)) + 1
           /\ \E b \in DOMAIN GetBatches' :
                /\ GetBatches'[b].batchType = KindOfTag(op.tag)
                /\ Last(GetBatches'[b].operations) = Last(submitted')
                /\ Last(GetBatches'[b].originalIndexes) = currentIndex
           /\ KindOf(Last(submitted')) = KindOfTag(op.tag)
           /\ KindOfTag(op.tag) = UPDATE =>
                Last(submitted').multi = (op.tag = "updateMany")
           /\ KindOfTag(op.tag) = DELETE =>
                Last(submitted').limit
                  = Some(IF op.tag = "deleteOne" THEN 1 ELSE 0)

\* C21: raw() fails with InvalidArgument and leaves every batch, the queue
\* and the operation counter unchanged for a replaceOne whose replacement
\* has atomic operators, an updateOne or updateMany whose update has none,
\* an update, replace or delete in the legacy raw-query shape, and an unknown
\* tag; every other tagged operation appends exactly one operation of the
\* kind of its tag, single or multi (limit 1 or 0) as the tag says.
C21_RawValidation == [][\A op \in RawInputs : C21_OnRaw(op)]_vars

\* an updateMany was accepted as a multi update and a malformed operation
\* was then rejected
C21_Witness ==
  /\ lastCall = [op |-> "raw", error |-> InvalidArgument]
  /\ currentIndex = 1
  /\ Len(submitted) = 1
  /\ submitted[1].multi

-----------------------------------------------------------------------------
(* SpecBuilder: find(), the modifiers and the terminals of FindOperators *)

\* operations emitted by the builder under SpecBuilder
MaxBuilderOps == 1

Collations == {"{locale:fr}"}
ArrayFilterSets == {"[{x:1}]"}
Payloads == {AtomicUpdate, PlainDocument}

InitBuilder ==
  \E ordered \in BOOLEAN : Constructor(ordered, 0, FALSE, 0, TRUE)

NextBuilder ==
  \/ find(Selector)
  \/ FindOperators_upsert
  \/ \E collation \in Collations : FindOperators_collation(collation)
  \/ \E arrayFilters \in ArrayFilterSets :
       FindOperators_arrayFilters(arrayFilters)
  \/ /\ currentIndex < MaxBuilderOps
     /\ \E p \in Payloads, s \in ExecSizes : FindOperators_update(p, s)
  \/ /\ currentIndex < MaxBuilderOps
     /\ \E p \in Payloads, s \in ExecSizes : FindOperators_updateOne(p, s)
  \/ /\ currentIndex < MaxBuilderOps
     /\ \E p \in Payloads, s \in ExecSizes : FindOperators_replaceOne(p, s)
  \/ /\ currentIndex < MaxBuilderOps
     /\ \E s \in ExecSizes : FindOperators_deleteOne(s)
  \/ /\ currentIndex < MaxBuilderOps
     /\ \E s \in ExecSizes : FindOperators_delete(s)

SpecBuilder == InitBuilder /\ [][NextBuilder]_vars

\* raw() accepts the operation of this tag with this payload
RawAccepts(tag, payload) ==
  \A s \in ExecSizes : rawError(RawOp(tag, Selector, payload, FALSE, s)) = ""

\* this step is a builder call that was accepted (rejected)
Accepted == lastCall'.error = ""
Rejected == lastCall'.error = InvalidArgument /\ UNCHANGED accumVars

C22_OnTerminal(p, s) ==
  /\ FindOperators_updateOne(p, s) =>
       /\ Accepted <=> RawAccepts("updateOne", p)
       /\ Rejected <=> ~RawAccepts("updateOne", p)
  /\ FindOperators_update(p, s) =>
       /\ Accepted <=> RawAccepts("updateMany", p)
       /\ Rejected <=> ~RawAccepts("updateMany", p)
       /\ ~hasAtomicOperators(p) => Rejected
  /\ FindOperators_replaceOne(p, s) =>
       /\ Accepted <=> RawAccepts("replaceOne", p)
       /\ Rejected <=> ~RawAccepts("replaceOne", p)

\* C22: the builder terminals validate the payload as raw() does: updateOne
\* accepts a payload exactly when raw updateOne does, update exactly when raw
\* updateMany does, replaceOne exactly when raw replaceOne does; update with
\* a payload that has no atomic operators fails with InvalidArgument.
C22_BuilderValidatesAsRaw ==
  [][\A p \in Payloads, s \in ExecSizes : C22_OnTerminal(p, s)]_vars

\* this step is a terminal call that emitted its operation
Emits == Len(submitted') = Len(submitted) + 1

C29_OnStep ==
  /\ Len(currentOp') <= 1
  /\ Emits =>
       LET d == CurrentOpOrEmpty
           new == Last(submitted')
       IN /\ submitted' = Append(submitted, new)
          /\ new.q = d.selector
          /\ new.collation = d.collation
          /\ KindOf(new) = UPDATE =>
               /\ new.upsert = d.upsert
               /\ new.arrayFilters = d.arrayFilters
          /\ currentOp' = None
  /\ (lastCall'.op = "find" /\ lastCall'.error = "") =>
       \E selector \in {Selector} :
         currentOp' = Some([EmptyCurrentOp EXCEPT !.selector = selector])
  /\ lastCall'.op = "upsert" =>
       currentOp' = Some([CurrentOpOrEmpty EXCEPT !.upsert = TRUE])
  /\ lastCall'.op = "collation" =>
       \E c \in Collations :
         currentOp' = Some([CurrentOpOrEmpty EXCEPT !.collation = c])
  /\ lastCall'.op = "arrayFilters" =>
       \E f \in ArrayFilterSets :
         currentOp' = Some([CurrentOpOrEmpty EXCEPT !.arrayFilters = f])

-----------------------------------------------------------------------------
(* SpecRollover: submissions under a byte ceiling and under a count ceiling *)

\* operations submitted to one bulk operation under SpecRollover
MaxRolloverOps == 3

\* <<isMaster.maxBsonObjectSize, autoEncrypter set, isMaster.maxWriteBatchSize>>
\* (0: not reported)
RolloverPolicies == { <<46, FALSE, 0>>, <<0, FALSE, 2>> }

RolloverSizes == {12, 20}

InitRollover ==
  \E ordered \in BOOLEAN, p \in RolloverPolicies :
    Constructor(ordered, p[1], p[2], p[3], TRUE)

NextRollover ==
  \/ /\ currentIndex < MaxRolloverOps
     /\ \E s \in RolloverSizes : insert(PlainDocument, s)
  \/ /\ ~IsSome(currentOp)
     /\ find(Selector)
  \/ /\ currentIndex < MaxRolloverOps /\ IsSome(currentOp)
     /\ \E s \in RolloverSizes : FindOperators_deleteOne(s)

SpecRollover == InitRollover /\ [][NextRollover]_vars

\* the active batch of a kind, if there is one
ActiveBatch(batchType) ==
  IF isOrdered
    THEN IF IsSome(currentBatch) /\ Get(currentBatch).batchType = batchType
           THEN currentBatch ELSE None
    ELSE ActiveOfKind(Accumulator, batchType)

\* the active batch of a kind after the step
ActiveBatchAfter(batchType) ==
  IF isOrdered THEN currentBatch'
  ELSE CASE batchType = INSERT -> currentInsertBatch'
         [] batchType = UPDATE -> currentUpdateBatch'
         [] batchType = DELETE -> currentRemoveBatch'

\* what each operation of a batch adds to its byte count beside its own size
IndexOverhead == DecimalLength(maxWriteBatchSize - 1) + 2

C23_OnSubmit ==
  Emits =>
    LET new == Last(submitted')
        active == ActiveBatch(KindOf(new))
    IN IsSome(active) =>
         LET batch == Get(active)
             after == Get(ActiveBatchAfter(KindOf(new)))
             full ==
               \/ batch.size + 1 > maxWriteBatchSize
               \/ batch.sizeBytes + new.bsonSize + IndexOverhead
                    > maxBatchSizeBytes
         IN /\ full =>
                 /\ batches' = Append(batches, batch)
                 /\ after.operations = <<new>>
                 /\ after.batchType = batch.batchType
            /\ ~full =>
                 /\ batches' = batches
                 /\ after.operations = Append(batch.operations, new)
                 /\ after.sizeBytes
                      = batch.sizeBytes + new.bsonSize + IndexOverhead

\* C23: when an operation of estimated size s is submitted and a batch of its
\* kind is active, that batch is sealed and a new one of the kind is opened
\* for the operation if accumulatedCount + 1 > maxWriteBatchSize or
\* accumulatedByteSize + s + the per-entry index overhead > maxBatchSizeBytes,
\* and otherwise the operation joins the active batch and nothing is sealed.
C23_RolloverRule == [][C23_OnSubmit]_vars

\* under the byte ceiling a batch of two operations was sealed for a third
\* operation of its kind, which sits alone in the new active batch
C23_Witness ==
  /\ maxWriteBatchSize = DefaultMaxWriteBatchSize
  /\ Len(batches) = 1
  /\ batches[1].size = 2
  /\ IsSome(ActiveBatch(batches[1].batchType))
  /\ Get(ActiveBatch(batches[1].batchType)).size = 1
  /\ currentIndex = 3

-----------------------------------------------------------------------------
(* Further claims on the result merger (SpecMerge) *)

\* C24: merging a response with ok = 0 while the cumulative ok is 1 sets ok
\* to 0 and records exactly one WriteError, with index
\* batch.originalZeroIndex, the command's code and message and the batch's
\* first operation; nothing else of the response is merged.
C24_OnMerge ==
  (MergeCall /\ MergedResponse.ok = 0 /\ bulkResult.ok = 1) =>
     bulkResult' =
       [bulkResult EXCEPT
          !.ok = 0,
          !.writeErrors =
             Append(@, [index  |-> MergedBatch.originalZeroIndex,
                        code   |-> MergedResponse.code,
                        errmsg |-> MergedResponse.message,
                        op     |-> Some(MergedBatch.operations[1])])]

C24_TopLevelErrorAtZeroIndex == [][C24_OnMerge]_vars

\* the upserted entries of a response: an array, or one value
UpsertedIn(response) == Len(response.upserted)

\* C25: an ok response for an Update batch that omits the modified count
\* leaves nModified as it was, while nMatched and nUpserted are updated.
C25_OnMerge ==
  (/\ MergeCall
   /\ isUpdateBatch(MergedBatch)
   /\ MergedResponse.ok = 1
   /\ ~IsSome(MergedResponse.nModified)) =>
     /\ bulkResult'.nModified = bulkResult.nModified
     /\ bulkResult'.nUpserted = bulkResult.nUpserted + UpsertedIn(MergedResponse)
     /\ bulkResult'.nMatched
          = bulkResult.nMatched
              + (MergedResponse.n - UpsertedIn(MergedResponse))

C25_OmittedModifiedCountKeepsNModified == [][C25_OnMerge]_vars

C26_OnMerge ==
  (/\ MergeCall
   /\ isUpdateBatch(MergedBatch)
   /\ MergedResponse.ok = 1
   /\ IsSome(MergedResponse.nModified)) =>
     /\ bulkResult'.nUpserted = bulkResult.nUpserted + UpsertedIn(MergedResponse)
     /\ bulkResult'.nMatched
          = bulkResult.nMatched
              + (MergedResponse.n - UpsertedIn(MergedResponse))
     /\ bulkResult'.nModified
          = bulkResult.nModified + Get(MergedResponse.nModified)
     /\ bulkResult'.nInserted = bulkResult.nInserted
     /\ bulkResult'.nRemoved = bulkResult.nRemoved

C27_OnMerge ==
  (MergeCall /\ MergedResponse.ok = 1) =>
     LET new == Appended(bulkResult.upserted, bulkResult'.upserted) IN
     /\ SubSeq(bulkResult'.upserted, 1, Len(bulkResult.upserted))
          = bulkResult.upserted
     /\ Len(new) = Len(MergedResponse.upserted)
     /\ \A k \in DOMAIN new :
          /\ new[k]._id = MergedResponse.upserted[k]._id
          /\ new[k].index
               = MergedBatch.originalZeroIndex
                   + (IF MergedResponse.upsertedIsArray
                        THEN MergedResponse.upserted[k].index ELSE 0)

-----------------------------------------------------------------------------
(* SpecRetry: single and multi updates and deletes, dispatched with          *)
(* retryable writes resolved on or off                                       *)

\* operations submitted to one bulk operation under SpecRetry
MaxRetryOps == 3

\* the server answers every batch without an error
RetryResponses(len) == { Response(1, len, Some(len), <<>>, FALSE, <<>>, None) }

InitRetry ==
  \E ordered \in BOOLEAN, retry \in BOOLEAN :
    Constructor(ordered, 0, FALSE, 0, retry)

NextRetry ==
  \/ /\ currentIndex < MaxRetryOps /\ ~executed
     /\ \E s \in ExecSizes : insert(PlainDocument, s)
  \/ /\ ~executed /\ ~IsSome(currentOp)
     /\ find(Selector)
  \/ /\ currentIndex < MaxRetryOps /\ ~executed /\ IsSome(currentOp)
     /\ \E s \in ExecSizes : FindOperators_update(AtomicUpdate, s)
  \/ /\ currentIndex < MaxRetryOps /\ ~executed /\ IsSome(currentOp)
     /\ \E s \in ExecSizes : FindOperators_updateOne(AtomicUpdate, s)
  \/ /\ currentIndex < MaxRetryOps /\ ~executed /\ IsSome(currentOp)
     /\ \E s \in ExecSizes : FindOperators_deleteOne(s)
  \/ /\ currentIndex < MaxRetryOps /\ ~executed /\ IsSome(currentOp)
     /\ \E s \in ExecSizes : FindOperators_delete(s)
  \/ /\ ~executed
     /\ execute(FALSE)
  \/ /\ Len(inFlight) > 0
     /\ \E r \in RetryResponses(Len(Head(inFlight).operations)) :
          resultHandler(ResultOutcome(r), FALSE)

SpecRetry == InitRetry /\ [][NextRetry]_vars

\* an Update batch with a multi update, or a Delete batch with a delete of
\* unlimited count
NotRetryable(batch) ==
  \/ /\ batch.batchType = UPDATE
     /\ \E i \in DOMAIN batch.operations : batch.operations[i].multi
  \/ /\ batch.batchType = DELETE
     /\ \E i \in DOMAIN batch.operations :
          batch.operations[i].limit = Some(0)

\* C28: no Update batch containing a multi update and no Delete batch
\* containing a limit-0 delete is dispatched with retryable writes on; every
\* other batch is dispatched with the resolved retryWrites unchanged; the
\* decision is made per batch and does not carry over to later batches.
C28_RetryDecidedPerBatch ==
  \A i \in DOMAIN dispatched :
    dispatched[i].retryWrites
      = (retryWrites /\ ~NotRetryable(dispatched[i].batch))

\* a batch with a multi update went out with retryable writes off and the
\* batch after it with retryable writes on
C28_Witness ==
  /\ Len(dispatched) = 2
  /\ NotRetryable(dispatched[1].batch)
  /\ ~dispatched[1].retryWrites
  /\ ~NotRetryable(dispatched[2].batch)
  /\ dispatched[2].retryWrites

-----------------------------------------------------------------------------
(* Claims on the aggregate error (Spec) *)

\* this step halts the run on what was merged from a server response: the
\* outcome carries a response document with ok = 1 (a result, or the result
\* of a MongoWriteConcernError) and the callback gets an error
HaltsOnMergedResponse ==
  /\ OutcomeStep
  /\ Last(outcomes').type # "error"
  /\ Get(Last(outcomes').result).ok = 1
  /\ Len(callbacks') = Len(callbacks) + 1
  /\ IsSome(Last(callbacks').err)

C30_OnHalt ==
  HaltsOnMergedResponse =>
    LET error == Get(Last(callbacks').err)
        br == bulkResult'
    IN /\ error.result = br
       /\ Len(br.writeErrors) > 0 =>
            /\ error.code = br.writeErrors[1].code
            /\ error.message = IF br.writeErrors[1].errmsg # ""
                                 THEN br.writeErrors[1].errmsg
                                 ELSE "write operation failed"
            /\ error.writeErrors = br.writeErrors
       /\ Len(br.writeErrors) = 0 =>
            /\ Len(br.writeConcernErrors) = 1
            /\ error.code = br.writeConcernErrors[1].code
            /\ error.message = br.writeConcernErrors[1].errmsg

\* C30: when the run halts on write errors the aggregate error has the code
\* and message of the first WriteError ('write operation failed' when it has
\* no message) and the whole cumulative list as writeErrors; when it halts on
\* a write-concern failure it has the code and message of that write-concern
\* error; in both cases it carries the partial result.
C30_AggregateErrorFields == [][C30_OnHalt]_vars

-----------------------------------------------------------------------------
(* SpecShapes: mergeBatchResults over the response shapes that carry write-  *)
(* concern errors and upserted entries, and the accessors of the result     *)

\* calls of mergeBatchResults on one bulk operation under SpecShapes
MaxShapeMerges == 3

\* the kinds of the operations submitted, in submission order
ShapeScript == <<INSERT, UPDATE>>

\* the documents the server may answer `batch` with: without error, with one
\* of two write-concern errors, with an upserted entry (whatever the kind of
\* the batch), with an upserted entry and an affected count of 0
ShapeResponses(batch) ==
  LET len == Len(batch.operations) IN
  { Response(1, len, Some(len), <<>>, FALSE, <<>>, None),
    Response(1, len, Some(len), <<>>, FALSE, <<>>,
             Some([code |-> 64, errmsg |-> "wtimeout"])),
    Response(1, len, Some(len), <<>>, FALSE, <<>>,
             Some([code |-> 100, errmsg |-> "no quorum"])),
    Response(1, len, Some(0), <<[index |-> 0, _id |-> "id1"]>>, TRUE, <<>>,
             None),
    Response(1, 0, Some(0), <<[index |-> 0, _id |-> "id2"]>>, TRUE, <<>>,
             None) }

InitShapes ==
  \E ordered \in BOOLEAN : Constructor(ordered, 0, FALSE, 0, TRUE)

NextShapes ==
  \/ /\ currentIndex < Len(ShapeScript)
     /\ ShapeScript[currentIndex + 1] = INSERT
     /\ insert(PlainDocument, ScriptSizes[currentIndex])
  \/ /\ currentIndex < Len(ShapeScript)
     /\ ShapeScript[currentIndex + 1] # INSERT
     /\ ~IsSome(currentOp)
     /\ find(Selector)
  \/ /\ currentIndex < Len(ShapeScript)
     /\ ShapeScript[currentIndex + 1] = UPDATE
     /\ IsSome(currentOp)
     /\ FindOperators_updateOne(AtomicUpdate, ScriptSizes[currentIndex])
  \/ /\ currentIndex = Len(ShapeScript)
     /\ Len(outcomes) < MaxShapeMerges
     /\ \E b \in DOMAIN GetBatches :
          \E r \in ShapeResponses(GetBatches[b]) : MergeStep(GetBatches[b], r)
  \/ /\ currentIndex = Len(ShapeScript)
     /\ BulkWriteResult_getWriteConcernError

SpecShapes == InitShapes /\ [][NextShapes]_vars

\* the messages occur in text one after the other, in this order, from
\* position `from` on
RECURSIVE ContainsInOrder(_, _, _)
ContainsInOrder(text, messages, from) ==
  IF Len(messages) = 0 THEN TRUE
  ELSE \E p \in from..(Len(text) - Len(Head(messages)) + 1) :
         /\ SubSeq(text, p, p + Len(Head(messages)) - 1) = Head(messages)
         /\ ContainsInOrder(text, Tail(messages), p + Len(Head(messages)))

C31_OnCall ==
  lastCall'.op = "getWriteConcernError" =>
    LET errors == bulkResult.writeConcernErrors IN
    /\ bulkResult' = bulkResult
    /\ Len(errors) = 0 => returned' = None
    /\ Len(errors) = 1 => returned' = Some(errors[1])
    /\ Len(errors) > 1 =>
         /\ IsSome(returned')
         /\ ContainsInOrder(Get(returned').errmsg,
                            [i \in DOMAIN errors |-> errors[i].errmsg], 1)

\* C31: getWriteConcernError returns nothing when no write-concern error is
\* recorded, the recorded error when exactly one is, and for k > 1 one error
\* whose message contains the messages of all k in recording order; the call
\* leaves the cumulative result, writeConcernErrors included, as it was.
C31_CombinedWriteConcernError == [][C31_OnCall]_vars

\* three write-concern errors are recorded, the second unlike the first, and
\* the call returned one combined error
C31_Witness ==
  /\ lastCall.op = "getWriteConcernError"
  /\ Len(bulkResult.writeConcernErrors) = 3
  /\ bulkResult.writeConcernErrors[1].errmsg = "wtimeout"
  /\ bulkResult.writeConcernErrors[2].errmsg = "no quorum"
  /\ IsSome(returned)
  /\ Get(returned).code = WriteConcernFailed

\* C35: after any sequence of merges nUpserted equals the number of entries
\* of upserted (the result's upsertedCount), for every batch kind and every
\* response shape.
C35_UpsertCountsAgree ==
  bulkResult.nUpserted = Len(bulkResult.upserted)

-----------------------------------------------------------------------------
(* SpecLive: Spec with a transport that resolves every dispatch *)

\* the transport calls resultHandler for the batch in flight
TransportResolves ==
  /\ Len(inFlight) > 0
  /\ \E o \in ExecOutcomes(Len(Head(inFlight).operations)),
        throws \in BOOLEAN : resultHandler(o, throws)

SpecLive == Init /\ [][Next]_vars /\ WF_vars(TransportResolves)

\* C32: when the transport resolves every dispatch, an execute() that passed
\* its guards leads to exactly one invocation of the completion callback:
\* one is eventually made, never a second, and never after more dispatches
\* than the queue held batches when execution began.
C32_ExactlyOneCallback ==
  /\ executed ~> (Len(callbacks) = 1)
  /\ [](Len(callbacks) <= 1)
  /\ [](Len(dispatched) <= Len(queueAtExecute))
  /\ []((Len(callbacks) = 1) => (Len(inFlight) = 0))

\* a queue of two batches was dispatched whole and the callback was invoked
\* once, with the result
C32_Witness ==
  /\ executed
  /\ Len(queueAtExecute) = 2
  /\ Len(dispatched) = 2
  /\ Len(outcomes) = 2
  /\ Len(callbacks) = 1
  /\ IsSome(callbacks[1].result)

-----------------------------------------------------------------------------
(* SpecQueue: submissions under a byte or a count ceiling, with operations  *)
(* larger than the byte ceiling, then execute()                            *)

\* operations submitted to one bulk operation under SpecQueue
MaxQueueOps == 3

\* estimated sizes: one that fits the byte ceiling of RolloverPolicies and
\* one that exceeds it on its own
QueueSizes == {12, 50}

InitQueue ==
  \E ordered \in BOOLEAN, p \in RolloverPolicies :
    Constructor(ordered, p[1], p[2], p[3], TRUE)

NextQueue ==
  \/ /\ currentIndex < MaxQueueOps /\ ~executed
     /\ \E s \in QueueSizes : insert(PlainDocument, s)
  \/ /\ ~executed /\ ~IsSome(currentOp)
     /\ find(Selector)
  \/ /\ currentIndex < MaxQueueOps /\ ~executed /\ IsSome(currentOp)
     /\ \E s \in QueueSizes : FindOperators_deleteOne(s)
  \/ /\ ~executed
     /\ execute(FALSE)
  \/ /\ Len(inFlight) > 0
     /\ \E r \in RetryResponses(Len(Head(inFlight).operations)) :
          resultHandler(ResultOutcome(r), FALSE)

SpecQueue == InitQueue /\ [][NextQueue]_vars

NotEmpty(batch) ==
  /\ Len(batch.operations) >= 1
  /\ batch.size = Len(batch.operations)
  /\ Len(batch.originalIndexes) = Len(batch.operations)

-----------------------------------------------------------------------------
(* Claims on write-concern errors through execute() (Spec) *)

C34_OnDispatch ==
  Len(dispatched') > Len(dispatched) => bulkResult'.writeConcernErrors = <<>>

\* C34: in every state reached through execute() the cumulative result holds
\* at most one WriteConcernError, and no batch is dispatched while one is
\* recorded.
C34_AtMostOneWriteConcernError ==
  /\ [](Len(bulkResult.writeConcernErrors) <= 1)
  /\ [][C34_OnDispatch]_vars

\* the second batch's response carried a write-concern error: it is
\* recorded, the callback got an error and a batch is left in the queue
C34_Witness ==
  /\ Len(bulkResult.writeConcernErrors) = 1
  /\ Len(dispatched) = 2
  /\ Len(outcomes) = 2
  /\ Len(batches) > 0
  /\ Len(callbacks) = 1
  /\ IsSome(callbacks[1].err)

=============================================================================
